---- MODULE Spec2Model ----
(***************************************************************************)
(* State-machine model of the Ethereum node manager                        *)
(* (src/modules/ethereumNode.js, class EthereumNode).                      *)
(*                                                                         *)
(* Every call of init(), restart() or stop() is a task: a promise chain    *)
(* whose position is tasks[t].pc.  A position is either "ready" (a promise *)
(* callback is queued and runs before any further I/O event) or waiting    *)
(* for an event of the environment: the IPC socket, the log rotation, the  *)
(* child process (output, error, close) or a timer.  The child process     *)
(* spawned by task t is procs[t].                                          *)
(***************************************************************************)
EXTENDS Naturals, Integers, Sequences, FiniteSets, TLC

VARIABLES
    _state,        \* this._state ("undefined" until the first assignment)
    _node,         \* this._node: 0 (null) or the id of the owned process
    _type,         \* this._type
    _network,      \* this._network
    _lastErr,      \* this._lastErr
    _stopPromise,  \* this._stopPromise
    persisted,     \* the user-data files 'node' and 'network'
    defaults,      \* this.defaultNodeType / this.defaultNetwork
    tasks,         \* the promise chains of the calls made so far
    ntasks,        \* number of calls made so far
    procs,         \* the child processes, indexed by the task that spawned them
    onceData,      \* tasks whose once('data') listener is still registered
    graceTimers,   \* tasks whose NODE_START_WAIT_MS timer is pending
    killTimers,    \* tasks whose 8 second kill timer is pending
    notif,         \* the last 'state' notification, as an observer saw it
    events,        \* the other notifications emitted so far
    loading,       \* whether the loading window is shown
    isConnected    \* this._socket.isConnected

vars == <<_state, _node, _type, _network, _lastErr, _stopPromise, persisted,
          defaults, tasks, ntasks, procs, onceData, graceTimers, killTimers,
          notif, events, loading, isConnected>>

(***************************************************************************)
(* Bounds                                                                  *)
(***************************************************************************)
MaxStarts == 2     \* calls of init() and restart() in one behaviour
MaxStops == 2      \* calls of stop() in one behaviour
MaxChunks == 1     \* output chunks a process writes on each stream

(***************************************************************************)
(* Program constants                                                       *)
(***************************************************************************)
DEFAULT_NODE_TYPE == "geth"
DEFAULT_NETWORK == "main"
UNABLE_TO_BIND_PORT_ERROR == "unableToBindPort"

STARTING == "STARTING"
STARTED == "STARTED"
CONNECTED == "CONNECTED"
STOPPING == "STOPPING"
STOPPED == "STOPPED"
ERROR == "ERROR"
STATES == {STARTING, STARTED, CONNECTED, STOPPING, STOPPED, ERROR}

Null == "null"
Undefined == "undefined"

MaxTasks == MaxStarts + MaxStops
TaskIds == 1..MaxTasks

\* positions at which a promise callback is queued
ReadyPcs == {"attachThen", "attachCatch", "stopThen", "show", "startCall",
             "startNode", "startedThen", "connectThen", "connectCatch",
             "startCatch", "hide"}
\* positions waiting for an event of the environment
WaitPcs == {"attach", "stopWait", "stopJoin", "rotating", "spawned", "connecting"}
DonePcs == {"resolved", "rejected"}

\* output chunks, by what the startup scan finds in them
Chunks == {"plain", "fatal", "fatalBind"}
\* failures of the IPC connect, by whether err.toString() mentions 'timeout'
ConnectErrors == {"timeout", "refused"}

NoProc == [status |-> "none", nodeType |-> Null, stdoutL |-> FALSE,
           stderrL |-> FALSE, errorL |-> FALSE, closeL |-> {},
           sigint |-> 0, sigkill |-> 0, nout |-> 0, nerr |-> 0,
           emitted |-> FALSE]

NoTaskRec == [kind |-> "none", pc |-> "none", phase |-> "none",
              nodeType |-> Null, network |-> Null,
              newType |-> Null, newNetwork |-> Null,
              \* curType, curNetwork: the manager's type and network when
              \* restart() was called (kept until its _start is called)
              curType |-> Null, curNetwork |-> Null,
              \* saved: the persisted values when its _start was called;
              \* tlog: the states it has set so far
              err |-> Undefined, errKind |-> "none", owned |-> FALSE,
              saved |-> [node |-> "none", network |-> "none"],
              tlog |-> <<>>]

NoNotif == [st |-> Undefined, lastErr |-> Undefined, cause |-> "n/a"]

(***************************************************************************)
(* Getters                                                                 *)
(***************************************************************************)
isOwnNode == _node # 0
isExternalNode == _node = 0
\* lines 58-60
isIpcConnected == isConnected

type == IF isOwnNode THEN _type ELSE Null
network == IF isOwnNode THEN _network ELSE Null

\* a || b of JavaScript on the values used here
Or(a, b) == IF a \in {Null, Undefined, "none"} THEN b ELSE a

\* _loadDefaults: Settings value, else the persisted value, else the constant
LoadDefault(setting, saved, dflt) == Or(Or(setting, saved), dflt)

\* _saveUserData(path, data): writes nothing when data is falsy
SaveUserData(p, path, data) ==
    IF data \in {Null, Undefined} THEN p ELSE [p EXCEPT ![path] = data]

\* the 'state' setter: what the observers of the 'state' event see
Notification(s, le, cause) ==
    [st |-> s, lastErr |-> le, cause |-> cause]

\* a settled promise: only its outcome is kept
Settled(tk, outcome) == [NoTaskRec EXCEPT !.kind = tk.kind, !.pc = outcome]

\* the calls made so far, by kind
NumStops == Cardinality({t \in TaskIds : tasks[t].kind = "stop"})
NumStarts == Cardinality({t \in TaskIds : tasks[t].kind \in {"init", "restart"}})

NoReady == \A t \in TaskIds : tasks[t].pc \notin ReadyPcs

(***************************************************************************)
(* Initial state: the constructor                                          *)
(***************************************************************************)
SettingsNodeTypes == {Null, "eth"}
SavedAtBoot == {[node |-> "none", network |-> "none"]}

Init ==
    /\ _state = Undefined
    /\ _node = 0
    /\ _type = Null
    /\ _network = Null
    /\ _lastErr = Undefined
    /\ _stopPromise = Undefined
    /\ persisted \in SavedAtBoot
    /\ \E s \in SettingsNodeTypes :
          defaults = [nodeType |-> LoadDefault(s, persisted.node, DEFAULT_NODE_TYPE),
                      network |-> LoadDefault(Null, persisted.network, DEFAULT_NETWORK)]
    /\ tasks = [t \in TaskIds |-> NoTaskRec]
    /\ ntasks = 0
    /\ procs = [t \in TaskIds |-> NoProc]
    /\ onceData = {}
    /\ graceTimers = {}
    /\ killTimers = {}
    /\ notif = NoNotif
    /\ events = {}
    /\ loading = FALSE
    /\ isConnected = FALSE

(***************************************************************************)
(* stop()                                                                  *)
(***************************************************************************)
\* ChildProcess.kill: a signal reaches only a process that is still running
Kill(p, sig) ==
    IF p.status # "alive" THEN p
    ELSE IF sig = "SIGINT" THEN [p EXCEPT !.sigint = @ + 1]
    ELSE [p EXCEPT !.sigkill = @ + 1]

\* a stop() that leaves the state as it is
StopExecutorStateKept == _state

\* the state the executor of stop() leaves when a process is owned
StopExecutorState == STOPPING

\* The synchronous part of stop() made by task t, whose record becomes rec.
StopInvoke(t, rec) ==
    IF _stopPromise \in {Null, Undefined}
    THEN IF _node = 0
         THEN /\ tasks' = [tasks EXCEPT ![t] =
                              [rec EXCEPT !.pc = "stopThen", !.owned = FALSE]]
              /\ UNCHANGED <<_state, procs, killTimers, notif>>
         ELSE /\ _state' = StopExecutorState
              /\ notif' = Notification(StopExecutorState, _lastErr, "n/a")
              /\ procs' = [procs EXCEPT ![_node] =
                              [Kill(@, "SIGINT") EXCEPT !.stdoutL = FALSE,
                                                         !.stderrL = FALSE,
                                                         !.errorL = FALSE,
                                                         !.closeL = @ \cup {t}]]
              /\ killTimers' = killTimers \cup {t}
              /\ tasks' = [tasks EXCEPT ![t] =
                              [rec EXCEPT !.pc = "stopWait", !.owned = TRUE,
                                          !.tlog = Append(@, StopExecutorState)]]
    ELSE /\ tasks' = [tasks EXCEPT ![t] = [rec EXCEPT !.pc = "stopJoin"]]
         /\ UNCHANGED <<_state, procs, killTimers, notif>>

\* a caller calls stop()
StopCall ==
    /\ NoReady
    /\ NumStops < MaxStops
    /\ ntasks' = ntasks + 1
    /\ StopInvoke(ntasks + 1, [NoTaskRec EXCEPT !.kind = "stop", !.phase = "stop"])
    /\ UNCHANGED <<isConnected, _node, _type, _network, _lastErr, _stopPromise, persisted,
                   defaults, onceData, graceTimers, loading, events>>

\* where the chain of task tk goes once its stop() has resolved
AfterStop(tk) ==
    CASE tk.kind = "stop" -> "resolved"
      [] tk.kind = "restart" /\ tk.phase = "pre" -> "show"
      [] OTHER -> "startNode"

\* the .then of stop(): lines 224-227
StopThen(t) ==
    /\ tasks[t].pc = "stopThen"
    /\ _state' = STOPPED
    /\ notif' = Notification(STOPPED, _lastErr, "n/a")
    /\ _stopPromise' = Null
    /\ tasks' = [tasks EXCEPT ![t] =
                    IF AfterStop(tasks[t]) = "resolved"
                    THEN Settled(@, "resolved")
                    ELSE [@ EXCEPT !.pc = AfterStop(tasks[t]),
                                   !.tlog = Append(@, STOPPED)]]
    /\ UNCHANGED <<isConnected, _node, _type, _network, _lastErr, persisted, defaults,
                   ntasks, procs, onceData, graceTimers, killTimers, loading, events>>

\* the kill timer of stop(): lines 210-214
KillTimeout(t) ==
    /\ NoReady
    /\ t \in killTimers
    /\ killTimers' = killTimers \ {t}
    /\ procs' = IF _node # 0
                THEN [procs EXCEPT ![_node] = Kill(@, "SIGKILL")]
                ELSE procs
    /\ UNCHANGED <<isConnected, _state, _node, _type, _network, _lastErr, _stopPromise,
                   persisted, defaults, tasks, ntasks, onceData, graceTimers,
                   notif, loading, events>>

TimersKeptAfterClose(p) == killTimers

\* line 217: each close listener of p cancels the kill timer of its stop()
TimersAfterClose(p) == killTimers \ procs[p].closeL

\* the child process p closes; the once('close') listeners of stop() run
\* (lines 216-222)
ProcClose(p) ==
    /\ NoReady
    /\ procs[p].status \in {"alive", "failed"}
    /\ procs' = [procs EXCEPT ![p] = [NoProc EXCEPT !.status = "closed",
                                                    !.emitted = procs[p].emitted]]
    /\ killTimers' = TimersAfterClose(p)
    /\ _node' = IF procs[p].closeL # {} THEN 0 ELSE _node
    /\ tasks' = [t \in TaskIds |->
                    IF t \in procs[p].closeL
                    THEN [tasks[t] EXCEPT !.pc = "stopThen"]
                    ELSE tasks[t]]
    /\ UNCHANGED <<isConnected, _state, _type, _network, _lastErr, _stopPromise, persisted,
                   defaults, ntasks, onceData, graceTimers, notif, loading, events>>

(***************************************************************************)
(* init()                                                                  *)
(***************************************************************************)
\* a caller calls init(): the attach probe of line 134 is sent
InitCall ==
    /\ NoReady
    /\ NumStarts < MaxStarts
    /\ ntasks' = ntasks + 1
    /\ tasks' = [tasks EXCEPT ![ntasks + 1] =
                    [NoTaskRec EXCEPT !.kind = "init", !.pc = "attach",
                                      !.phase = "attach"]]
    /\ UNCHANGED <<isConnected, _state, _node, _type, _network, _lastErr, _stopPromise,
                   persisted, defaults, procs, onceData, graceTimers,
                   killTimers, notif, loading, events>>

\* the IPC socket answers the attach probe
AttachResult(t, ok) ==
    /\ NoReady
    /\ tasks[t].pc = "attach"
    /\ tasks' = [tasks EXCEPT ![t] =
                    [@ EXCEPT !.pc = IF ok THEN "attachThen" ELSE "attachCatch"]]
    /\ isConnected' = IF ok THEN TRUE ELSE isConnected
    /\ UNCHANGED <<_state, _node, _type, _network, _lastErr, _stopPromise,
                   persisted, defaults, ntasks, procs, onceData, graceTimers,
                   killTimers, notif, loading, events>>

\* an init() that takes the attached node for a started one
AttachedStateStarted == STARTED

\* the state init() sets when the probe succeeded
AttachedState == CONNECTED

\* lines 135-139
AttachThen(t) ==
    /\ tasks[t].pc = "attachThen"
    /\ _state' = AttachedState
    /\ notif' = Notification(AttachedState, _lastErr, "n/a")
    /\ events' = events \cup {"runningNodeFound"}
    /\ tasks' = [tasks EXCEPT ![t] = Settled(@, "resolved")]
    /\ UNCHANGED <<isConnected, _node, _type, _network, _lastErr, _stopPromise, persisted,
                   defaults, ntasks, procs, onceData, graceTimers, killTimers,
                   loading>>

\* lines 140-153 and the head of _start (lines 263-274): stop() is called
AttachCatch(t) ==
    /\ tasks[t].pc = "attachCatch"
    /\ StopInvoke(t, [tasks[t] EXCEPT !.phase = "start",
                                      !.nodeType = defaults.nodeType,
                                      !.network = defaults.network,
                                      !.saved = persisted])
    /\ UNCHANGED <<isConnected, _node, _type, _network, _lastErr, _stopPromise, persisted,
                   defaults, ntasks, onceData, graceTimers, loading, events>>

(***************************************************************************)
(* restart()                                                               *)
(***************************************************************************)
\* the arguments callers pass to restart()
RestartArgs == {<<Null, Null>>, <<"eth", "test">>}

\* a restart() without the guard
RestartNeverRefused == FALSE

\* the guard of line 160
RestartRefused == ~isOwnNode

\* a caller calls restart(newType, newNetwork): lines 158-166
RestartCall(newType, newNetwork) ==
    /\ NoReady
    /\ NumStarts < MaxStarts
    /\ ntasks' = ntasks + 1
    /\ LET rec == [NoTaskRec EXCEPT !.kind = "restart", !.phase = "pre",
                                    !.newType = newType,
                                    !.newNetwork = newNetwork,
                                    !.curType = type,
                                    !.curNetwork = network]
       IN  IF RestartRefused
           THEN /\ tasks' = [tasks EXCEPT ![ntasks + 1] =
                                Settled(rec, "rejected")]
                /\ UNCHANGED <<_state, procs, killTimers, notif>>
           ELSE StopInvoke(ntasks + 1, rec)
    /\ UNCHANGED <<isConnected, _node, _type, _network, _lastErr, _stopPromise, persisted,
                   defaults, onceData, graceTimers, loading, events>>

\* lines 167-169
Show(t) ==
    /\ tasks[t].pc = "show"
    /\ loading' = TRUE
    /\ tasks' = [tasks EXCEPT ![t] = [@ EXCEPT !.pc = "startCall"]]
    /\ UNCHANGED <<isConnected, _state, _node, _type, _network, _lastErr, _stopPromise,
                   persisted, defaults, ntasks, procs, onceData, graceTimers,
                   killTimers, notif, events>>

\* line 171 and the head of _start (lines 263-274): stop() is called
StartCall(t) ==
    /\ tasks[t].pc = "startCall"
    /\ StopInvoke(t, [tasks[t] EXCEPT !.phase = "start",
                                      !.nodeType = Or(tasks[t].newType, type),
                                      !.network = Or(tasks[t].newNetwork, network),
                                      !.curType = Null,
                                      !.curNetwork = Null,
                                      !.saved = persisted])
    /\ UNCHANGED <<isConnected, _node, _type, _network, _lastErr, _stopPromise, persisted,
                   defaults, ntasks, onceData, graceTimers, loading, events>>

\* lines 173-175
Hide(t) ==
    /\ tasks[t].pc = "hide"
    /\ loading' = FALSE
    /\ tasks' = [tasks EXCEPT ![t] = Settled(@, "resolved")]
    /\ UNCHANGED <<isConnected, _state, _node, _type, _network, _lastErr, _stopPromise,
                   persisted, defaults, ntasks, procs, onceData, graceTimers,
                   killTimers, notif, events>>

(***************************************************************************)
(* _start(), __startNode(), __startProcess()                               *)
(***************************************************************************)
\* ClientBinaryManager.getClient(nodeType): the client kinds it knows
ClientKnown(nodeType) == nodeType \in {"geth", "eth"}

\* __startNode (lines 331-345) and the call of logRotate (line 356)
StartNode(t) ==
    /\ tasks[t].pc = "startNode"
    /\ _state' = STARTING
    /\ notif' = Notification(STARTING, _lastErr, "n/a")
    /\ _network' = tasks[t].network
    /\ _type' = tasks[t].nodeType
    /\ tasks' = [tasks EXCEPT ![t] =
                    [@ EXCEPT !.pc = IF ClientKnown(tasks[t].nodeType)
                                     THEN "rotating" ELSE "startCatch",
                              !.errKind = IF ClientKnown(tasks[t].nodeType)
                                          THEN @ ELSE "unknownClient",
                              !.tlog = Append(@, STARTING)]]
    /\ UNCHANGED <<isConnected, _node, _lastErr, _stopPromise, persisted, defaults, ntasks,
                   procs, onceData, graceTimers, killTimers, loading, events>>

\* the callback of logRotate: lines 356-455
Rotated(t, ok) ==
    /\ NoReady
    /\ tasks[t].pc = "rotating"
    /\ IF ok
       THEN /\ procs' = [procs EXCEPT ![t] =
                            [NoProc EXCEPT !.status = "alive",
                                           !.nodeType = tasks[t].nodeType,
                                           !.stdoutL = TRUE, !.stderrL = TRUE,
                                           !.errorL = TRUE]]
            /\ onceData' = onceData \cup {t}
            /\ tasks' = [tasks EXCEPT ![t] = [@ EXCEPT !.pc = "spawned"]]
       ELSE /\ tasks' = [tasks EXCEPT ![t] =
                            [@ EXCEPT !.pc = "startCatch", !.errKind = "logRotate"]]
            /\ UNCHANGED <<procs, onceData>>
    /\ UNCHANGED <<isConnected, _state, _node, _type, _network, _lastErr, _stopPromise,
                   persisted, defaults, ntasks, graceTimers, killTimers, notif,
                   loading, events>>

\* reject(err) of the promise of __startProcess of task p: a promise settles once
Reject(tk, tag, kind) ==
    IF tk.pc = "spawned"
    THEN [tk EXCEPT !.pc = "startCatch", !.err = tag, !.errKind = kind]
    ELSE tk

\* resolve(proc) of the promise of __startProcess
Resolve(tk) == IF tk.pc = "spawned" THEN [tk EXCEPT !.pc = "startedThen"] ELSE tk

\* the startup scan of lines 412-427: "none", or the tag of the error found
ScanFatal(nodeType, c) == nodeType = "geth" /\ c \in {"fatal", "fatalBind"}
ScanTag(c) == IF c = "fatalBind" THEN UNABLE_TO_BIND_PORT_ERROR ELSE Undefined

\* the attempt of process p is awaiting its outcome while the state is STARTING
Starting(p) == _state = STARTING /\ tasks[p].pc = "spawned"

\* process p writes chunk c on stdout: lines 406-428, and the once('data')
\* listeners of lines 441-454
StdoutData(p, c) ==
    /\ NoReady
    /\ procs[p].status = "alive"
    /\ procs[p].stdoutL
    /\ procs[p].nout < MaxChunks
    /\ procs' = [procs EXCEPT ![p] =
                    [@ EXCEPT !.nout = @ + 1, !.emitted = TRUE]]
    /\ graceTimers' = graceTimers \cup onceData
    /\ onceData' = {}
    /\ tasks' = IF _state = STARTING /\ ScanFatal(procs[p].nodeType, c)
                THEN [tasks EXCEPT ![p] = Reject(@, ScanTag(c), "startup")]
                ELSE tasks
    /\ UNCHANGED <<isConnected, _state, _node, _type, _network, _lastErr, _stopPromise,
                   persisted, defaults, ntasks, killTimers, notif, loading, events>>

\* process p writes chunk c on stderr: lines 431-435, and the once('data')
\* listeners of lines 441-454
StderrData(p, c) ==
    /\ NoReady
    /\ procs[p].status = "alive"
    /\ procs[p].stderrL
    /\ procs[p].nerr < MaxChunks
    /\ procs' = [procs EXCEPT ![p] =
                    [@ EXCEPT !.nerr = @ + 1, !.emitted = TRUE]]
    /\ graceTimers' = graceTimers \cup onceData
    /\ onceData' = {}
    /\ UNCHANGED <<isConnected, _state, _node, _type, _network, _lastErr, _stopPromise,
                   persisted, defaults, tasks, ntasks, killTimers, notif,
                   loading, events>>

\* process p could not be spawned and emits 'error': lines 390-398
ProcError(p) ==
    /\ NoReady
    /\ procs[p].status = "alive"
    /\ procs[p].errorL
    /\ procs[p].nout = 0 /\ procs[p].nerr = 0
    /\ procs' = [procs EXCEPT ![p] = [@ EXCEPT !.status = "failed",
                                               !.errorL = FALSE]]
    /\ IF _state = STARTING
       THEN /\ _state' = ERROR
            /\ notif' = Notification(ERROR, _lastErr, Undefined)
            /\ tasks' = [tasks EXCEPT ![p] =
                            [Reject(@, Undefined, "spawn")
                                EXCEPT !.tlog = Append(@, ERROR)]]
       ELSE UNCHANGED <<_state, notif, tasks>>
    /\ UNCHANGED <<isConnected, _node, _type, _network, _lastErr, _stopPromise, persisted,
                   defaults, ntasks, onceData, graceTimers, killTimers, loading, events>>

\* the condition under which the grace timer declares the start a success
GraceOk == _state = STARTING

\* the timer of lines 447-453 fires
GraceTimeout(t) ==
    /\ NoReady
    /\ t \in graceTimers
    /\ graceTimers' = graceTimers \ {t}
    /\ tasks' = IF GraceOk THEN [tasks EXCEPT ![t] = Resolve(@)] ELSE tasks
    /\ UNCHANGED <<isConnected, _state, _node, _type, _network, _lastErr, _stopPromise,
                   persisted, defaults, ntasks, procs, onceData, killTimers,
                   notif, loading, events>>

\* what _start persists once the process has started: lines 291-292
SavedOnStarted(p) ==
    SaveUserData(SaveUserData(p, "node", _type), "network", _network)

\* lines 285-296: the start succeeded, the IPC connect is sent
StartedThen(t) ==
    /\ tasks[t].pc = "startedThen"
    /\ _node' = t
    /\ _state' = STARTED
    /\ notif' = Notification(STARTED, _lastErr, "n/a")
    /\ persisted' = SavedOnStarted(persisted)
    /\ tasks' = [tasks EXCEPT ![t] = [@ EXCEPT !.pc = "connecting",
                                               !.tlog = Append(@, STARTED)]]
    /\ UNCHANGED <<isConnected, _type, _network, _lastErr, _stopPromise, defaults, ntasks,
                   procs, onceData, graceTimers, killTimers, loading, events>>

\* the IPC socket answers the connect of line 294
ConnectOk(t) ==
    /\ NoReady
    /\ tasks[t].pc = "connecting"
    /\ tasks' = [tasks EXCEPT ![t] = [@ EXCEPT !.pc = "connectThen"]]
    /\ isConnected' = TRUE
    /\ UNCHANGED <<_state, _node, _type, _network, _lastErr, _stopPromise,
                   persisted, defaults, ntasks, procs, onceData, graceTimers,
                   killTimers, notif, loading, events>>

\* the channel is closed by its peer or by another user of the socket
SocketClosed ==
    /\ NoReady
    /\ isConnected
    /\ isConnected' = FALSE
    /\ UNCHANGED <<_state, _node, _type, _network, _lastErr, _stopPromise,
                   persisted, defaults, tasks, ntasks, procs, onceData,
                   graceTimers, killTimers, notif, loading, events>>

ConnectFail(t, e) ==
    /\ NoReady
    /\ tasks[t].pc = "connecting"
    /\ tasks' = [tasks EXCEPT ![t] = [@ EXCEPT !.pc = "connectCatch",
                                               !.errKind = e]]
    /\ UNCHANGED <<isConnected, _state, _node, _type, _network, _lastErr, _stopPromise,
                   persisted, defaults, ntasks, procs, onceData, graceTimers,
                   killTimers, notif, loading, events>>

\* lines 297-299
ConnectThen(t) ==
    /\ tasks[t].pc = "connectThen"
    /\ _state' = CONNECTED
    /\ notif' = Notification(CONNECTED, _lastErr, "n/a")
    /\ tasks' = [tasks EXCEPT ![t] =
                    IF tasks[t].kind = "restart"
                    THEN [@ EXCEPT !.pc = "hide", !.tlog = Append(@, CONNECTED)]
                    ELSE Settled(@, "resolved")]
    /\ UNCHANGED <<isConnected, _node, _type, _network, _lastErr, _stopPromise, persisted,
                   defaults, ntasks, procs, onceData, graceTimers, killTimers,
                   loading, events>>

\* a test that matches no error
IsTimeoutNever(e) == FALSE

\* line 303: err.toString() mentions 'timeout'
IsTimeout(e) == e = "timeout"

\* lines 300-310
ConnectCatch(t) ==
    /\ tasks[t].pc = "connectCatch"
    /\ events' = IF IsTimeout(tasks[t].errKind)
                  THEN events \cup {"nodeConnectionTimeout"}
                  ELSE events
    /\ tasks' = [tasks EXCEPT ![t] = [@ EXCEPT !.pc = "startCatch"]]
    /\ UNCHANGED <<isConnected, _state, _node, _type, _network, _lastErr, _stopPromise,
                   persisted, defaults, ntasks, procs, onceData, graceTimers,
                   killTimers, notif, loading>>

\* a catch that writes the primary kind whatever kind failed
SavedOnFailureAlways(p, nodeType) == SaveUserData(p, "node", "geth")

\* what the catch of _start persists: lines 319-321
SavedOnFailure(p, nodeType) ==
    IF nodeType = "eth" THEN SaveUserData(p, "node", "geth") ELSE p

\* lines 312-324
StartCatch(t) ==
    /\ tasks[t].pc = "startCatch"
    /\ _lastErr' = tasks[t].err
    /\ _state' = ERROR
    /\ notif' = Notification(ERROR, tasks[t].err, tasks[t].err)
    /\ persisted' = SavedOnFailure(persisted, tasks[t].nodeType)
    /\ tasks' = [tasks EXCEPT ![t] = Settled(@, "rejected")]
    /\ UNCHANGED <<isConnected, _node, _type, _network, _stopPromise, defaults, ntasks,
                   procs, onceData, graceTimers, killTimers, loading, events>>

(***************************************************************************)
(* The specification                                                       *)
(***************************************************************************)
Next ==
    \/ InitCall
    \/ StopCall
    \/ \E a \in RestartArgs : RestartCall(a[1], a[2])
    \/ \E t \in TaskIds, ok \in BOOLEAN : AttachResult(t, ok)
    \/ \E t \in TaskIds : AttachThen(t)
    \/ \E t \in TaskIds : AttachCatch(t)
    \/ \E t \in TaskIds : StopThen(t)
    \/ \E t \in TaskIds : KillTimeout(t)
    \/ \E p \in TaskIds : ProcClose(p)
    \/ \E t \in TaskIds : Show(t)
    \/ \E t \in TaskIds : StartCall(t)
    \/ \E t \in TaskIds : Hide(t)
    \/ \E t \in TaskIds : StartNode(t)
    \/ \E t \in TaskIds, ok \in BOOLEAN : Rotated(t, ok)
    \/ \E p \in TaskIds, c \in Chunks : StdoutData(p, c)
    \/ \E p \in TaskIds, c \in Chunks : StderrData(p, c)
    \/ \E p \in TaskIds : ProcError(p)
    \/ \E t \in TaskIds : GraceTimeout(t)
    \/ \E t \in TaskIds : StartedThen(t)
    \/ \E t \in TaskIds : ConnectOk(t)
    \/ SocketClosed
    \/ \E t \in TaskIds, e \in ConnectErrors : ConnectFail(t, e)
    \/ \E t \in TaskIds : ConnectThen(t)
    \/ \E t \in TaskIds : ConnectCatch(t)
    \/ \E t \in TaskIds : StartCatch(t)

Spec == Init /\ [][Next]_vars

TypeOK ==
    /\ _state \in STATES \cup {Undefined}
    /\ _node \in 0..MaxTasks
    /\ ntasks \in 0..MaxTasks
    /\ \A t \in TaskIds : tasks[t].pc \in ReadyPcs \cup WaitPcs \cup DonePcs \cup {"none"}

(***************************************************************************)
(* Properties                                                              *)
(***************************************************************************)

\* C1: however many stop() calls are made while a stop of the owned process
\* is in flight, the process is sent one interrupt signal and at most one
\* forced-kill signal, and one stop operation awaits its close.
C1_OneStopInFlight ==
    \A p \in TaskIds :
        /\ procs[p].sigint <= 1
        /\ procs[p].sigkill <= 1
        /\ Cardinality(procs[p].closeL) <= 1

\* C2: the owned-process reference is non-null only in the states STARTING,
\* STARTED, CONNECTED and STOPPING.
C2_NodeOnlyWhileRunning ==
    _node # 0 => _state \in {STARTING, STARTED, CONNECTED, STOPPING}

\* C3: a stop() made while a process is owned has set the state to STOPPING
\* before it sets it to STOPPED: while it awaits the close of the process, and
\* when its STOPPED assignment is queued, the last state it set is STOPPING.
C3_StoppingBeforeStopped ==
    \A t \in TaskIds :
        (tasks[t].pc \in {"stopWait", "stopThen"} /\ tasks[t].owned)
            => /\ Len(tasks[t].tlog) > 0
               /\ tasks[t].tlog[Len(tasks[t].tlog)] = STOPPING

C3_Witness ==
    \E t \in TaskIds :
        /\ tasks[t].pc = "stopThen"
        /\ tasks[t].owned
        /\ _node = 0
        /\ _state = STOPPING

\* C4: when a geth process whose start is awaited in state STARTING writes a
\* chunk with the fatal-error signature and the bind-failure substring, on
\* stdout or on stderr, its start is rejected with the port-bind tag.
C4_BindFailureRejects ==
    [][\A p \in TaskIds :
          (/\ Starting(p)
           /\ procs[p].nodeType = "geth"
           /\ StdoutData(p, "fatalBind") \/ StderrData(p, "fatalBind"))
             => /\ tasks'[p].pc = "startCatch"
                /\ tasks'[p].err = UNABLE_TO_BIND_PORT_ERROR]_vars

\* C5: on the spawn path the state becomes STARTED only for a process that
\* has written at least one output chunk.
C5_StartedOnlyAfterOutput ==
    [][\A t \in TaskIds : StartedThen(t) => procs[t].emitted]_vars

\* C6: when the IPC connect of a started node fails with a timeout, the
\* nodeConnectionTimeout notification is emitted; when it fails otherwise, no
\* notification is emitted; in both cases the _start goes on to its catch,
\* which sets the state to ERROR and rejects.
C6_ConnectFailure ==
    [][\A t \in TaskIds :
          /\ ConnectCatch(t) =>
                /\ tasks[t].errKind = "timeout"
                      => "nodeConnectionTimeout" \in events'
                /\ tasks[t].errKind # "timeout" => events' = events
                /\ STARTED \in {tasks[t].tlog[i] : i \in 1..Len(tasks[t].tlog)}
                /\ tasks'[t].pc = "startCatch"
          /\ StartCatch(t) =>
                /\ _state' = ERROR
                /\ notif'.st = ERROR
                /\ tasks'[t].pc = "rejected"]_vars

C6_Witness ==
    \E t \in TaskIds :
        /\ tasks[t].pc = "startCatch"
        /\ tasks[t].errKind = "timeout"
        /\ "nodeConnectionTimeout" \in events
        /\ _state = STARTED

\* C7: restart() called while no process is owned is rejected at once and
\* changes nothing: no state, lastError or owned process, no notification,
\* no signal, no timer, no process.
C7_RestartRefused ==
    [][\A a \in RestartArgs :
          (RestartCall(a[1], a[2]) /\ isExternalNode)
             => /\ tasks'[ntasks + 1].pc = "rejected"
                /\ UNCHANGED <<_state, _lastErr, _node, _type, _network,
                               notif, events, procs, killTimers, graceTimers,
                               onceData, persisted, loading>>]_vars

C7_Witness ==
    /\ ntasks = 2
    /\ tasks[1].kind = "init" /\ tasks[1].pc = "resolved"
    /\ tasks[2].kind = "restart" /\ tasks[2].pc = "rejected"
    /\ _state = CONNECTED
    /\ isExternalNode

\* C8: when the attach probe of init() succeeds, init() sets the state to
\* CONNECTED as the first and only state it sets, emits runningNodeFound,
\* spawns no process and leaves the owned-process reference as it is.
C8_AttachConnects ==
    [][\A t \in TaskIds :
          AttachThen(t)
             => /\ tasks[t].tlog = <<>>
                /\ _state' = CONNECTED
                /\ notif'.st = CONNECTED
                /\ "runningNodeFound" \in events'
                /\ UNCHANGED <<procs, _node, onceData, graceTimers>>
                /\ tasks'[t].pc = "resolved"]_vars

C8_Witness ==
    /\ ntasks = 1
    /\ tasks[1].kind = "init" /\ tasks[1].pc = "resolved"
    /\ _state = CONNECTED
    /\ "runningNodeFound" \in events
    /\ _node = 0
    /\ \A p \in TaskIds : procs[p].status = "none"

\* C9 as stated: a _start for the primary kind that fails leaves the
\* persisted values as they were when it was called.
C9_FailedStartKeepsPersisted ==
    \A t \in TaskIds :
        (tasks[t].pc = "startCatch" /\ tasks[t].nodeType = "geth")
            => persisted = tasks[t].saved

\* C9 amended: the persisted values change only when a _start reaches
\* STARTED or fails.  On reaching STARTED it writes the manager's type and
\* network, which are the arguments of the last start that entered STARTING.
\* On failing, at any stage, it writes 'geth' as node type if its own kind is
\* 'eth' and nothing otherwise.
C9_PersistedWrites ==
    [][/\ persisted' # persisted
            => \E t \in TaskIds : StartedThen(t) \/ StartCatch(t)
       /\ \A t \in TaskIds :
            /\ StartedThen(t) =>
                  /\ _type \notin {Null, Undefined} => persisted'.node = _type
                  /\ _type \in {Null, Undefined} => persisted'.node = persisted.node
                  /\ _network \notin {Null, Undefined}
                        => persisted'.network = _network
                  /\ _network \in {Null, Undefined}
                        => persisted'.network = persisted.network
            /\ StartCatch(t) =>
                  /\ persisted'.network = persisted.network
                  /\ persisted'.node = IF tasks[t].nodeType = "eth"
                                       THEN "geth" ELSE persisted.node
            /\ StartNode(t) =>
                  /\ _type' = tasks[t].nodeType
                  /\ _network' = tasks[t].network
       /\ <<_type, _network>>' # <<_type, _network>>
            => \E t \in TaskIds : StartNode(t)]_vars

\* a geth start that failed at the IPC connect after it had persisted
C9_Witness ==
    \E t \in TaskIds :
        /\ tasks[t].pc = "startCatch"
        /\ tasks[t].nodeType = "geth"
        /\ tasks[t].errKind \in ConnectErrors
        /\ tasks[t].saved.node = "none"
        /\ persisted.node = "geth"

\* C10: at every notification of the state ERROR, lastError is the tag of the
\* error that caused it.
C10_LastErrorAtError ==
    notif.st = ERROR => notif.lastErr = notif.cause

\* C11: a stop() made while no process is owned is a no-op: when it resolves,
\* the state is as it was and no state notification has been emitted.
C11_StopWithoutNodeIsNoOp ==
    [][\A t \in TaskIds :
          (StopThen(t) /\ ~tasks[t].owned) => UNCHANGED <<_state, notif>>]_vars

\* C12: every stop() resolves: a stop() that has not resolved awaits the
\* close of a process that has not closed yet (the close resolves it, and a
\* closed process closes no second time).
C12_PendingStopCanResolve ==
    \A t \in TaskIds :
       tasks[t].pc = "stopWait"
          => \E p \in TaskIds :
                /\ t \in procs[p].closeL
                /\ procs[p].status # "closed"

\* C13: restart calls _start with the given type and network, and for an
\* omitted argument with the type or network the manager had when restart
\* was called.
C13_RestartArguments ==
    [][\A t \in TaskIds :
          StartCall(t)
             => /\ tasks'[t].nodeType = Or(tasks[t].newType, tasks[t].curType)
                /\ tasks'[t].network = Or(tasks[t].newNetwork, tasks[t].curNetwork)]_vars

\* C14: while the IPC channel is connected the state is CONNECTED, but for
\* the instant between a connect completing and its continuation assigning
\* CONNECTED.
C14_ConnectedChannelMeansConnected ==
    isIpcConnected
       => \/ _state = CONNECTED
          \/ \E t \in TaskIds : tasks[t].pc \in {"attachThen", "connectThen"}

\* C15: a stop() called in state STARTING, while a spawned process awaits the
\* confirmation of its start, sends that process the interrupt signal.
C15_StopWhileStartingKills ==
    [][\A p \in TaskIds :
          (/\ StopCall
           /\ _state = STARTING
           /\ tasks[p].pc = "spawned"
           /\ procs[p].status = "alive")
             => procs'[p].sigint = procs[p].sigint + 1]_vars

\* C16: in the state ERROR that a failed start left, restart() is not refused.
C16_RestartAfterError ==
    [][\A a \in RestartArgs :
          (RestartCall(a[1], a[2]) /\ _state = ERROR)
             => tasks'[ntasks + 1].pc # "rejected"]_vars

\* C17: from STOPPING the state only changes to STOPPED.
C17_OnlyStoppedAfterStopping ==
    [][_state = STOPPING => _state' \in {STOPPING, STOPPED}]_vars

C19_OneProcessAlive ==
    /\ Cardinality({p \in TaskIds : procs[p].status = "alive"}) <= 1
    /\ \A p \in TaskIds :
          procs[p].status = "alive"
             => _node = p \/ tasks[p].pc \in {"spawned", "startedThen"}

\* C20: every _start settles: a _start that awaits the outcome of its
\* spawned process still has its first-data listener or its grace timer
\* pending, or a process that can still write output or fail.
C20_PendingStartCanSettle ==
    \A t \in TaskIds :
       tasks[t].pc = "spawned"
          => \/ t \in onceData
             \/ t \in graceTimers
             \/ procs[t].status # "closed"

\* C21: when a restart() that has shown the loading indicator settles,
\* resolved or rejected, the indicator is hidden.
C21_LoadingHiddenAfterRestart ==
    [][\A t \in TaskIds :
          (/\ tasks[t].kind = "restart"
           /\ tasks[t].phase = "start"
           /\ tasks[t].pc \notin DonePcs
           /\ tasks'[t].pc \in DonePcs)
             => loading' = FALSE]_vars

====
